---------------------------- MODULE Spec2Model ----------------------------
(***************************************************************************)
(* Model of the pooled transactional SQL execution engine of               *)
(* src-tauri/src/db.rs (execute_transaction over DbState), with the        *)
(* managed state as constructed in src-tauri/src/lib.rs.                   *)
(*                                                                         *)
(* Every invocation of execute_transaction is a call c \in Calls.  A call  *)
(* advances from one lock operation or await point to the next; the SQL    *)
(* driver (connect, begin, execute, commit) answers each await with        *)
(* success or with an error carrying a driver message.                     *)
(***************************************************************************)
EXTENDS Naturals, Sequences, FiniteSets

(***************************************************************************)
(* Bounds of the model.                                                    *)
(***************************************************************************)
NumCalls == 2
MaxSteps == 2
MaxParams == 2

Calls == 1..NumCalls
NoCall == 0

(* Connection identifiers (DSN strings), the keys of DbState.connections.  *)
Ids == {"sqlite:a.db", "sqlite:b.db"}

(* Messages the driver's errors display as.                                *)
DriverMsgs == {"database is locked", "disk I/O error"}

(***************************************************************************)
(* 64-bit words as sequences of bits, most significant bit first.          *)
(***************************************************************************)
Width == 64
BitsOf(S) == [i \in 1..Width |-> IF (Width - i) \in S THEN 1 ELSE 0]
Zero64 == BitsOf({})

(* Binary increment, wrapping.                                             *)
Inc(b) ==
  LET zs == {i \in 1..Len(b) : b[i] = 0} IN
  IF zs = {} THEN [i \in 1..Len(b) |-> 0]
  ELSE LET q == CHOOSE i \in zs : \A j \in zs : j <= i IN
       [i \in 1..Len(b) |-> IF i < q THEN b[i] ELSE IF i = q THEN 1 ELSE 0]

Not64(b) == [i \in 1..Len(b) |-> 1 - b[i]]

ExpBits(n) == [i \in 1..11 |-> (n \div (2 ^ (11 - i))) % 2]

(* `n as f64` for n : u64, round to nearest, ties to even; the result is   *)
(* the IEEE-754 binary64 word with the given sign bit.                     *)
U64ToF64(b, sign) ==
  LET ones == {i \in 1..Width : b[i] = 1} IN
  IF ones = {} THEN <<sign>> \o [i \in 1..(Width - 1) |-> 0]
  ELSE
    LET p    == CHOOSE i \in ones : \A j \in ones : i <= j
        e    == Width - p
        tail == SubSeq(b, p + 1, Width)
        mant == IF e <= 52 THEN tail \o [i \in 1..(52 - e) |-> 0]
                ELSE SubSeq(tail, 1, 52)
        up   == /\ e > 52
                /\ tail[53] = 1
                /\ \/ \E i \in 54..e : tail[i] = 1
                   \/ mant[52] = 1
        body == ExpBits(1023 + e) \o mant
    IN <<sign>> \o (IF up THEN Inc(body) ELSE body)

(* `n as f64` for n : i64 (two's complement).                              *)
I64ToF64(b) == IF b[1] = 0 THEN U64ToF64(b, 0) ELSE U64ToF64(Inc(Not64(b)), 1)

(***************************************************************************)
(* serde_json::Number: PosInt(u64), NegInt(i64, always negative) or        *)
(* Float(f64, always finite).                                              *)
(***************************************************************************)
None == [some |-> FALSE, bits |-> Zero64]
Some(b) == [some |-> TRUE, bits |-> b]
(* Option<String>, the type of TransactionResult.error.                    *)
NoneStr == [some |-> FALSE, s |-> ""]
SomeStr(x) == [some |-> TRUE, s |-> x]

(* Mutant: the u64 reinterpreted as i64 (a wrapping cast).                 *)
as_i64_wrapping(n) == IF n.kind \in {"PosInt", "NegInt"} THEN Some(n.bits) ELSE None
as_i64(n) ==
  CASE n.kind = "PosInt" -> IF n.bits[1] = 0 THEN Some(n.bits) ELSE None
    [] n.kind = "NegInt" -> Some(n.bits)
    [] OTHER             -> None

as_f64(n) ==
  CASE n.kind = "PosInt" -> Some(U64ToF64(n.bits, 0))
    [] n.kind = "NegInt" -> Some(I64ToF64(n.bits))
    [] OTHER             -> Some(n.bits)

(***************************************************************************)
(* serde_json::Value, the wire form of a parameter.                        *)
(***************************************************************************)
NoNumber == [kind |-> "PosInt", bits |-> Zero64]
JNull == [tag |-> "Null", s |-> "", n |-> NoNumber, b |-> FALSE]
JBool(x) == [tag |-> "Bool", s |-> "", n |-> NoNumber, b |-> x]
JString(x) == [tag |-> "String", s |-> x, n |-> NoNumber, b |-> FALSE]
JNumber(k, S) ==
  [tag |-> "Number", s |-> "", n |-> [kind |-> k, bits |-> BitsOf(S)], b |-> FALSE]
JArray == [tag |-> "Array", s |-> "", n |-> NoNumber, b |-> FALSE]
JObject == [tag |-> "Object", s |-> "", n |-> NoNumber, b |-> FALSE]

(***************************************************************************)
(* The statement under construction (sqlx::query) and its bound arguments. *)
(***************************************************************************)
Arg(ty, s, bits, b) == [ty |-> ty, s |-> s, bits |-> bits, b |-> b]
query(sql) == [sql |-> sql, args |-> <<>>]
(* Mutant: a bind that replaces the arguments bound so far.                *)
bindLast(q, a) == [q EXCEPT !.args = <<a>>]
bind(q, a) == [q EXCEPT !.args = Append(@, a)]

Bound(q) == [ok |-> TRUE, query |-> q, err |-> ""]
BindErr(q, e) == [ok |-> FALSE, query |-> q, err |-> e]

(* Mutant: a fallback binding (NULL) for the tags the match does not name. *)
BindParamLenient(q, param) ==
  IF param.tag \in {"String", "Number", "Bool", "Null"}
    THEN IF param.tag = "String" THEN Bound(bind(q, Arg("TEXT", param.s, Zero64, FALSE)))
         ELSE Bound(bind(q, Arg("INTEGER", "", param.n.bits, param.b)))
    ELSE Bound(bind(q, Arg("NULL:TEXT", "", Zero64, FALSE)))

(* One arm of the match over a parameter.                                  *)
BindParam(q, param) ==
  CASE param.tag = "String" -> Bound(bind(q, Arg("TEXT", param.s, Zero64, FALSE)))
    [] param.tag = "Number" ->
         IF as_i64(param.n).some
           THEN Bound(bind(q, Arg("INTEGER", "", as_i64(param.n).bits, FALSE)))
         ELSE IF as_f64(param.n).some
           THEN Bound(bind(q, Arg("REAL", "", as_f64(param.n).bits, FALSE)))
         ELSE BindErr(q, "Invalid number type")
    [] param.tag = "Bool" -> Bound(bind(q, Arg("BOOLEAN", "", Zero64, param.b)))
    [] param.tag = "Null" -> Bound(bind(q, Arg("NULL:TEXT", "", Zero64, FALSE)))
    [] OTHER -> BindErr(q, "Unsupported parameter type")

(* The loop over step.params, left to right, leaving at the first error.   *)
RECURSIVE BindParams(_, _)
BindParams(q, params) ==
  IF params = <<>> THEN Bound(q)
  ELSE LET r == BindParam(q, Head(params)) IN
       IF r.ok THEN BindParams(r.query, Tail(params)) ELSE r

(***************************************************************************)
(* Inputs.  A TransactionStep is {sql, params}; a batch is the Vec of      *)
(* steps of one call.                                                      *)
(***************************************************************************)
TransactionStep(sql, params) == [sql |-> sql, params |-> params]

InsertInt == TransactionStep("INSERT INTO t VALUES(?)", <<JNumber("PosInt", {0, 2})>>)
UpdateArr == TransactionStep("UPDATE t SET x = ?", <<JArray>>)
SeqsUpTo(S, n) == UNION {[1..k -> S] : k \in 0..n}

(* Batches of the concurrent calls: one that can succeed and one whose     *)
(* binding fails.                                                          *)
ConcBatches == {<<InsertInt>>, <<UpdateArr>>}

(* Batches of a single call: every batch of up to MaxSteps steps, each     *)
(* with up to MaxParams parameters.                                        *)
Sqls == {"INSERT INTO t VALUES(?)", "UPDATE t SET x = ?"}
BatchValues == {JNumber("PosInt", {0, 2}), JArray}
BatchSteps == {TransactionStep(sql, ps) : sql \in Sqls, ps \in SeqsUpTo(BatchValues, MaxParams)}
Batches == SeqsUpTo(BatchSteps, MaxSteps)

(* What the driver answers to an awaited operation.                        *)
DriverOk == [ok |-> TRUE, msg |-> ""]
DriverErr(m) == [ok |-> FALSE, msg |-> m]
Responses == {DriverOk} \cup {DriverErr(m) : m \in DriverMsgs}

(***************************************************************************)
(* Pools.  A pool handle is identified by the connect operation that made  *)
(* it: the identifier it was opened for and the call that opened it.       *)
(* Clones of a handle are the same pool.                                   *)
(***************************************************************************)
NoPool == [url |-> "", by |-> NoCall]
connect(url, c) == [url |-> url, by |-> c]

(* Mutants: a lookup that never finds, and one that ignores the key.       *)
getNever(m, k) == NoPool
getAny(m, k) == IF DOMAIN m = {} THEN NoPool ELSE m[CHOOSE x \in DOMAIN m : TRUE]
(* Mutant: a map of one entry, the insert evicting every other key.        *)
insertEvict(m, k, v) == [x \in {k} |-> v]
(* Mutant: an insert that keeps the entry already stored.                  *)
insertIfAbsent(m, k, v) ==
  [x \in (DOMAIN m) \cup {k} |-> IF x \in DOMAIN m THEN m[x] ELSE v]
(* HashMap::get(&db_url).cloned() and HashMap::insert.                     *)
get(m, k) == IF k \in DOMAIN m THEN m[k] ELSE NoPool
insert(m, k, v) == [x \in (DOMAIN m) \cup {k} |-> IF x = k THEN v ELSE m[x]]

(***************************************************************************)
(* Results.  execute_transaction returns Result<TransactionResult, String>.*)
(***************************************************************************)
TransactionResult(success, error) == [success |-> success, error |-> error]
(* value holds the TransactionResult of an Ok, and nothing otherwise.       *)
Pending == [kind |-> "Pending", value |-> <<>>, err |-> ""]
Ok(r) == [kind |-> "Ok", value |-> <<r>>, err |-> ""]
Err(e) == [kind |-> "Err", value |-> <<>>, err |-> e]

(* Mutants: the driver's message alone; the message of another operation.  *)
ConnectErrorBare(m) == m
BeginErrorAsConnect(m) == "Failed to connect to database: " \o m

(* Mutant: the driver's message without the statement's text.              *)
SqlErrorNoQuery(m, sql) == "SQL Error: " \o m

ConnectError(m) == "Failed to connect to database: " \o m
BeginError(m) == "Failed to begin transaction: " \o m
SqlError(m, sql) == "SQL Error: " \o m \o " | Query: " \o sql
CommitError(m) == "Failed to commit transaction: " \o m

(***************************************************************************)
(* The transaction handle and the backend.  store[d] is the committed      *)
(* content of the backend behind identifier d, as the sequence of          *)
(* statements committed to it; a transaction holds its uncommitted         *)
(* statements in its log.                                                  *)
(***************************************************************************)
NoTx == [open |-> FALSE, log |-> <<>>]
Stmt(q, c) == [sql |-> q.sql, args |-> q.args, by |-> c]
Event(op, ok, msg, step) == [op |-> op, ok |-> ok, msg |-> msg, step |-> step]

(***************************************************************************)
(* The updater (src-tauri/src/updater.rs).  PendingUpdate holds the update *)
(* found by the last check; an update is identified by the check call that *)
(* found it.                                                               *)
(***************************************************************************)
NumUpdaterCalls == 3
UCalls == 1..NumUpdaterCalls
UpdaterMsgs == {"request failed"}

NoUpdate == [some |-> FALSE, by |-> NoCall]
Update(u) == [some |-> TRUE, by |-> u]

(* Result<Option<UpdateMetadata>> and Result<()>; meta tells whether an Ok *)
(* carries the metadata of an update.                                      *)
UPending == [kind |-> "Pending", meta |-> FALSE, err |-> ""]
UOk(meta) == [kind |-> "Ok", meta |-> meta, err |-> ""]
UErr(e) == [kind |-> "Err", meta |-> FALSE, err |-> e]
(* The Display of Error.                                                   *)
UpdaterError(m) == "updater error: " \o m
NoPendingUpdate == "there is no pending update"

(* Mutant: the pending update read (cloned) and left in place.             *)
peek(p) == [value |-> p, left |-> p]
(* Option::take: the value moves out and None is left behind.              *)
take(p) == [value |-> p, left |-> NoUpdate]

VARIABLES
  connections,  \* DbState.connections: the map inside the mutex
  lock,         \* the call holding the mutex guard, or NoCall
  pc,           \* where each call stands
  db_url,       \* argument db_url of each call
  steps,        \* argument steps of each call
  pool,         \* the local pool of each call (Option, then the pool used)
  idx,          \* number of steps of the for loop completed
  tx,           \* the transaction handle of each call
  ret,          \* what the call returned
  store,        \* the backends' committed content
  io,           \* the driver operations each call performed, in order
  pending_update, \* PendingUpdate.0: the Option inside its mutex
  ulock,        \* the updater call holding that mutex's guard, or NoCall
  ucmd,         \* the command each updater call was invoked as
  upc,          \* where each updater call stands
  update,       \* the local `update` of each updater call
  uret,         \* what each updater call returned
  downloads,    \* the downloads started, in order
  app           \* the application process: running, or gone to restart

dbvars == <<connections, lock, pc, db_url, steps, pool, idx, tx, ret, store, io>>
uvars == <<pending_update, ulock, ucmd, upc, update, uret, downloads, app>>
vars == <<connections, lock, pc, db_url, steps, pool, idx, tx, ret, store, io,
          pending_update, ulock, ucmd, upc, update, uret, downloads, app>>

(* lib.rs: the managed PendingUpdate starts as None; no updater command    *)
(* has been invoked.                                                       *)
UpdaterInit ==
  /\ pending_update = NoUpdate
  /\ ulock = NoCall
  /\ ucmd = [u \in UCalls |-> ""]
  /\ upc = [u \in UCalls |-> "idle"]
  /\ update = [u \in UCalls |-> NoUpdate]
  /\ uret = [u \in UCalls |-> UPending]
  /\ downloads = <<>>
  /\ app = "running"

(* lib.rs: the managed DbState starts with an empty map.                   *)
Init ==
  /\ connections = [k \in {} |-> NoPool]
  /\ lock = NoCall
  /\ pc = [c \in Calls |-> "idle"]
  /\ db_url = [c \in Calls |-> ""]
  /\ steps = [c \in Calls |-> <<>>]
  /\ pool = [c \in Calls |-> NoPool]
  /\ idx = [c \in Calls |-> 0]
  /\ tx = [c \in Calls |-> NoTx]
  /\ ret = [c \in Calls |-> Pending]
  /\ store = [d \in Ids |-> <<>>]
  /\ io = [c \in Calls |-> <<>>]
  /\ UpdaterInit

(* Mutex::lock succeeds only on a free mutex.                              *)
CanLock(l) == l = NoCall
(* Mutant: the lookup guard lives on when the identifier was not found.    *)
LookupReleaseOnHit(c, found) == IF found THEN NoCall ELSE c
(* The guard of the lookup block is dropped at the end of the block,       *)
(* whether or not the identifier was found.                                *)
LookupRelease(c, found) == NoCall
(* Mutant: the insert guard lives to the end of the function.              *)
InsertReleaseLate(c) == c
(* The guard of the insert block is dropped at the end of the block.       *)
InsertRelease(c) == NoCall

(* Mutant: a cached pool used as if its transaction were open already.     *)
after_lookup_skip(found) == IF found THEN "step" ELSE "connect"
(* if let Some(existing_pool) = pool: a stored pool is used as it is, and  *)
(* a new one is connected otherwise.                                       *)
after_lookup(found) == IF found THEN "begin" ELSE "connect"

(* Mutants: a loop that leaves after its first pass; a failed commit       *)
(* reported inside a result.                                               *)
after_step_once(i, n) == "commit"
commit_failed_soft(m) == Ok(TransactionResult(FALSE, SomeStr("Failed to commit transaction: " \o m)))

(* Mutant: after a step that is not the last, the transaction is begun     *)
(* again.                                                                  *)
after_step_rebegin(i, n) == IF i = n THEN "commit" ELSE IF i = 0 THEN "step" ELSE "begin"
(* The for loop goes on to the next step, or leaves to the commit.         *)
after_step(i, n) == IF i = n THEN "commit" ELSE "step"
(* What the call returns when the commit fails, and when it succeeds.      *)
commit_failed(m) == Err(CommitError(m))
committed == Ok(TransactionResult(TRUE, NoneStr))

(* Dropping a transaction handle that was not committed rolls it back.     *)
DropTx(t) == NoTx
(* Mutant: the statement runs on the pool, outside the transaction.        *)
executeOnPool(t, s, stmt) == [tx |-> t, store |-> Append(s, stmt)]
(* query.execute(&mut *tx): the statement runs inside the transaction.     *)
execute(t, s, stmt) == [tx |-> [t EXCEPT !.log = Append(@, stmt)], store |-> s]
(* tx.commit(): the log becomes part of the backend's committed content.   *)
commit(t, s) == [tx |-> NoTx, store |-> s \o t.log]

(* The frontend invokes the command with an identifier and a batch.        *)
Invoke(c, B) ==
  /\ pc[c] = "idle"
  /\ \E d \in Ids, b \in B :
       /\ db_url' = [db_url EXCEPT ![c] = d]
       /\ steps' = [steps EXCEPT ![c] = b]
  /\ pc' = [pc EXCEPT ![c] = "lookup"]
  /\ UNCHANGED <<connections, lock, pool, idx, tx, ret, store, io, uvars>>

(* state.connections.lock() of the lookup block.                           *)
LookupLock(c) ==
  /\ pc[c] = "lookup"
  /\ CanLock(lock)
  /\ lock' = c
  /\ pc' = [pc EXCEPT ![c] = "lookup_locked"]
  /\ UNCHANGED <<connections, db_url, steps, pool, idx, tx, ret, store, io, uvars>>

(* connections_guard.get(&db_url).cloned(), the guard dropped; then the    *)
(* if let on the Option.                                                   *)
Lookup(c) ==
  /\ pc[c] = "lookup_locked"
  /\ LET found == get(connections, db_url[c]) IN
       /\ pool' = [pool EXCEPT ![c] = found]
       /\ lock' = LookupRelease(c, found # NoPool)
       /\ pc' = [pc EXCEPT ![c] = after_lookup(found # NoPool)]
  /\ UNCHANGED <<connections, db_url, steps, idx, tx, ret, store, io, uvars>>

(* SqlitePool::connect(&db_url).await with its map_err and ?.              *)
Connect(c) ==
  /\ pc[c] = "connect"
  /\ \E r \in Responses :
       /\ io' = [io EXCEPT ![c] = Append(@, Event("connect", r.ok, r.msg, 0))]
       /\ IF r.ok
            THEN /\ pool' = [pool EXCEPT ![c] = connect(db_url[c], c)]
                 /\ pc' = [pc EXCEPT ![c] = "insert"]
                 /\ ret' = ret
            ELSE /\ ret' = [ret EXCEPT ![c] = Err(ConnectError(r.msg))]
                 /\ pc' = [pc EXCEPT ![c] = "done"]
                 /\ pool' = pool
  /\ UNCHANGED <<connections, lock, db_url, steps, idx, tx, store, uvars>>

(* state.connections.lock() of the insert block.                           *)
InsertLock(c) ==
  /\ pc[c] = "insert"
  /\ CanLock(lock)
  /\ lock' = c
  /\ pc' = [pc EXCEPT ![c] = "insert_locked"]
  /\ UNCHANGED <<connections, db_url, steps, pool, idx, tx, ret, store, io, uvars>>

(* connections_guard.insert(db_url.clone(), new_pool.clone()).             *)
Insert(c) ==
  /\ pc[c] = "insert_locked"
  /\ connections' = insert(connections, db_url[c], pool[c])
  /\ lock' = InsertRelease(c)
  /\ pc' = [pc EXCEPT ![c] = "begin"]
  /\ UNCHANGED <<db_url, steps, pool, idx, tx, ret, store, io, uvars>>

(* pool.begin().await with its map_err and ?.                              *)
Begin(c) ==
  /\ pc[c] = "begin"
  /\ \E r \in Responses :
       /\ io' = [io EXCEPT ![c] = Append(@, Event("begin", r.ok, r.msg, 0))]
       /\ IF r.ok
            THEN /\ tx' = [tx EXCEPT ![c] = [open |-> TRUE, log |-> <<>>]]
                 /\ pc' = [pc EXCEPT ![c] = after_step(0, Len(steps[c]))]
                 /\ ret' = ret
            ELSE /\ ret' = [ret EXCEPT ![c] = Err(BeginError(r.msg))]
                 /\ pc' = [pc EXCEPT ![c] = "done"]
                 /\ tx' = tx
  /\ UNCHANGED <<connections, lock, db_url, steps, pool, idx, store, uvars>>

(* One iteration of the for loop whose binding fails: the function returns *)
(* the binder's error and the transaction handle is dropped.               *)
BindFail(c) ==
  /\ pc[c] = "step"
  /\ LET step == steps[c][idx[c] + 1]
         b == BindParams(query(step.sql), step.params)
     IN /\ ~b.ok
        /\ ret' = [ret EXCEPT ![c] = Err(b.err)]
  /\ tx' = [tx EXCEPT ![c] = DropTx(@)]
  /\ pc' = [pc EXCEPT ![c] = "done"]
  /\ UNCHANGED <<connections, lock, db_url, steps, pool, idx, store, io, uvars>>

(* One iteration of the for loop whose binding succeeds:                   *)
(* query.execute(&mut *tx).await with its map_err and ?.                   *)
Execute(c) ==
  /\ pc[c] = "step"
  /\ LET step == steps[c][idx[c] + 1]
         b == BindParams(query(step.sql), step.params)
         d == pool[c].url
     IN /\ b.ok
        /\ \E r \in Responses :
             /\ io' = [io EXCEPT ![c] = Append(@, Event("execute", r.ok, r.msg, idx[c] + 1))]
             /\ IF r.ok
                  THEN LET x == execute(tx[c], store[d], Stmt(b.query, c)) IN
                       /\ tx' = [tx EXCEPT ![c] = x.tx]
                       /\ store' = [store EXCEPT ![d] = x.store]
                       /\ idx' = [idx EXCEPT ![c] = @ + 1]
                       /\ pc' = [pc EXCEPT ![c] = after_step(idx[c] + 1, Len(steps[c]))]
                       /\ ret' = ret
                  ELSE /\ ret' = [ret EXCEPT ![c] = Err(SqlError(r.msg, step.sql))]
                       /\ tx' = [tx EXCEPT ![c] = DropTx(@)]
                       /\ pc' = [pc EXCEPT ![c] = "done"]
                       /\ UNCHANGED <<store, idx>>
  /\ UNCHANGED <<connections, lock, db_url, steps, pool, uvars>>

(* tx.commit().await with its map_err and ?, then the Ok result.           *)
Commit(c) ==
  /\ pc[c] = "commit"
  /\ LET d == pool[c].url IN
     \E r \in Responses :
       /\ io' = [io EXCEPT ![c] = Append(@, Event("commit", r.ok, r.msg, 0))]
       /\ IF r.ok
            THEN LET x == commit(tx[c], store[d]) IN
                 /\ tx' = [tx EXCEPT ![c] = x.tx]
                 /\ store' = [store EXCEPT ![d] = x.store]
                 /\ ret' = [ret EXCEPT ![c] = committed]
            ELSE /\ ret' = [ret EXCEPT ![c] = commit_failed(r.msg)]
                 /\ tx' = [tx EXCEPT ![c] = DropTx(@)]
                 /\ store' = store
  /\ pc' = [pc EXCEPT ![c] = "done"]
  /\ UNCHANGED <<connections, lock, db_url, steps, pool, idx, uvars>>

Next ==
  \E c \in Calls :
    \/ Invoke(c, ConcBatches)
    \/ LookupLock(c)
    \/ Lookup(c)
    \/ Connect(c)
    \/ InsertLock(c)
    \/ Insert(c)
    \/ Begin(c)
    \/ BindFail(c)
    \/ Execute(c)
    \/ Commit(c)

Spec == Init /\ [][Next]_vars

(***************************************************************************)
(* One call alone, over every batch of Batches, against backends of which  *)
(* one has committed content from before.                                  *)
(***************************************************************************)
Prior == Stmt(query("CREATE TABLE t(x INT)"), NoCall)
PriorStore == [d \in Ids |-> IF d = "sqlite:a.db" THEN <<Prior>> ELSE <<>>]
InitBatch ==
  /\ connections = [k \in {} |-> NoPool]
  /\ lock = NoCall
  /\ pc = [c \in Calls |-> "idle"]
  /\ db_url = [c \in Calls |-> ""]
  /\ steps = [c \in Calls |-> <<>>]
  /\ pool = [c \in Calls |-> NoPool]
  /\ idx = [c \in Calls |-> 0]
  /\ tx = [c \in Calls |-> NoTx]
  /\ ret = [c \in Calls |-> Pending]
  /\ store = PriorStore
  /\ io = [c \in Calls |-> <<>>]
  /\ UpdaterInit

NextBatch ==
  \/ Invoke(1, Batches)
  \/ LookupLock(1)
  \/ Lookup(1)
  \/ Connect(1)
  \/ InsertLock(1)
  \/ Insert(1)
  \/ Begin(1)
  \/ BindFail(1)
  \/ Execute(1)
  \/ Commit(1)

SpecBatch == InitBatch /\ [][NextBatch]_vars

(***************************************************************************)
(* Vocabulary of the properties.                                           *)
(***************************************************************************)
Performed(c, op) == {i \in DOMAIN io[c] : io[c][i].op = op}
Succeeded(c, op) == {i \in Performed(c, op) : io[c][i].ok}
DriverFailed(c) == \E i \in DOMAIN io[c] : ~io[c][i].ok
Writes(c) == UNION {{<<d, i>> : i \in {j \in DOMAIN store[d] : store[d][j].by = c}} :
                      d \in Ids}
Executed(c) == {io[c][i].step : i \in Succeeded(c, "execute")}
Attempted(c) == {io[c][i].step : i \in Performed(c, "execute")}
Locked == {"lookup_locked", "insert_locked"}
Suspending == {"connect", "begin", "step", "commit"}
Resolved == {"begin", "step", "commit", "done"}

(* C1: when a call has ended in an error, every backend holds what it held *)
(* before the call (the content committed earlier, and no statement of the *)
(* call), although steps before the failing one ran successfully inside    *)
(* the transaction; the transaction handle is gone and holds no statement. *)
(* The same is true of the backends as long as the call has not committed. *)
C1_Atomicity ==
  \A c \in Calls :
    /\ (pc[c] # "idle" /\ ret[c].kind # "Ok") => (Writes(c) = {} /\ store = PriorStore)
    /\ (pc[c] = "done" /\ ret[c].kind = "Err") => tx[c] = NoTx

(* C1's case: a call on the backend with earlier content failed at its     *)
(* second step (in binding or in execution) after the first had executed.  *)
C1_Witness ==
  \E c \in Calls :
    /\ pc[c] = "done" /\ ret[c].kind = "Err"
    /\ Executed(c) = {1} /\ Performed(c, "commit") = {}
    /\ store[db_url[c]] # <<>>

(* C2: the calls standing inside a lock block are exactly the holder of    *)
(* the mutex, so there is at most one; and the holder is never at a        *)
(* suspending operation (connect, begin, execute, commit).                 *)
C2_LockDiscipline ==
  /\ \A c \in Calls : (pc[c] \in Locked) <=> (lock = c)
  /\ Cardinality({c \in Calls : pc[c] \in Locked}) <= 1
  /\ \A c \in Calls : pc[c] \in Suspending => lock # c

(* C2's case: one call holds the lock for its insert while the other is    *)
(* suspended in its connect.                                               *)
C2_Witness ==
  \E c, o \in Calls : pc[c] = "insert_locked" /\ lock = c /\ pc[o] = "connect"

(* C3: a lookup made when the identifier is in the map finds the stored    *)
(* pool and the call goes on to begin without connecting; a call that runs *)
(* on a pool another call made performed no connect, and the two calls     *)
(* together performed exactly one.                                         *)
C3_Hit ==
  \A c \in Calls :
    (pc[c] = "lookup_locked" /\ pc'[c] # "lookup_locked"
       /\ db_url[c] \in DOMAIN connections)
    => (pc'[c] = "begin" /\ pool'[c] = connections[db_url[c]] /\ io'[c] = io[c])
C3_OneConnect ==
  \A c \in Calls :
    (pc[c] \in Resolved /\ pool[c] # NoPool /\ pool[c].by # c)
    => /\ db_url[pool[c].by] = db_url[c]
       /\ Cardinality(Performed(c, "connect")) = 0
       /\ Cardinality(Performed(pool[c].by, "connect")) = 1
(* C3: every lookup step satisfies C3_Hit and every state C3_OneConnect.    *)
C3_PoolReuse == [][C3_Hit]_vars /\ []C3_OneConnect

(* C3's case: a call finished on the pool the other call had inserted.     *)
C3_Witness ==
  \E c, o \in Calls :
    /\ c # o /\ pc[c] = "done" /\ pool[c] = connect(db_url[c], o)
    /\ ret[c].kind = "Ok"

(* C4: the pool stored under d, the pool a call with identifier d holds,   *)
(* and the backend a call writes to, all come from a connect for d.        *)
C4_NoSharing ==
  /\ \A d \in DOMAIN connections :
       /\ connections[d].url = d
       /\ connections[d].by \in Calls
       /\ db_url[connections[d].by] = d
       /\ Succeeded(connections[d].by, "connect") # {}
  /\ \A c \in Calls : pool[c] # NoPool => pool[c].url = db_url[c]
  /\ \A c \in Calls : \A w \in Writes(c) : w[1] = db_url[c]

(* C4's case: two calls with different identifiers have both committed.    *)
C4_Witness ==
  \E c, o \in Calls :
    /\ db_url[c] # db_url[o] /\ Writes(c) # {} /\ Writes(o) # {}
    /\ DOMAIN connections = Ids

(* C5: while a call is suspended in connect, a call at its lookup can take *)
(* the lock unless a call inside a lock block (never the connecting one)   *)
(* holds it for the moment; a call inside the lookup block can always      *)
(* complete it; and the lookup ends with the stored pool or in a connect   *)
(* of its own.                                                             *)
C5_Free ==
  \A c, o \in Calls :
    (c # o /\ pc[o] = "connect") =>
      /\ pc[c] = "lookup" =>
           \/ ENABLED LookupLock(c)
           \/ (lock \in Calls \ {o} /\ pc[lock] \in Locked)
      /\ pc[c] = "lookup_locked" => ENABLED Lookup(c)
C5_Outcome ==
  \A c \in Calls :
    (pc[c] = "lookup_locked" /\ pc'[c] # "lookup_locked") =>
      \/ pc'[c] = "begin" /\ db_url[c] \in DOMAIN connections
           /\ pool'[c] = connections[db_url[c]]
      \/ pc'[c] = "connect" /\ db_url[c] \notin DOMAIN connections
(* C5: every state satisfies C5_Free and every lookup step C5_Outcome.      *)
C5_NonBlockingLookup == []C5_Free /\ [][C5_Outcome]_vars

(* C5's case: a call completed its lookup, missing, while the other call   *)
(* was, and still is, suspended in a connect for the same identifier.      *)
C5_Witness ==
  \E c, o \in Calls :
    /\ c # o /\ pc[o] = "connect" /\ pc[c] = "connect"
    /\ db_url[c] = db_url[o]

Supported == {"String", "Number", "Bool", "Null"}
Unsupported(step) == \E i \in DOMAIN step.params : step.params[i].tag \notin Supported
UnsupportedSteps(c) == {k \in DOMAIN steps[c] : Unsupported(steps[c][k])}
FirstUnsupported(c) ==
  CHOOSE k \in UnsupportedSteps(c) : \A j \in UnsupportedSteps(c) : k <= j

(* C6 as stated: a finished call whose batch holds a parameter with an     *)
(* unsupported tag, and whose driver operations all succeeded, failed with *)
(* "Unsupported parameter type" and executed no statement at all.          *)
C6_Original ==
  \A c \in Calls :
    (pc[c] = "done" /\ UnsupportedSteps(c) # {} /\ ~DriverFailed(c))
    => (ret[c] = Err("Unsupported parameter type") /\ Performed(c, "execute") = {})

(* C6 amended: such a call failed with "Unsupported parameter type"; the   *)
(* statements it executed are exactly those of the steps before the first  *)
(* step with an unsupported tag; no commit was attempted, nothing of the   *)
(* batch reached a backend and the transaction is gone.                    *)
C6_BindFailure ==
  \A c \in Calls :
    (pc[c] = "done" /\ UnsupportedSteps(c) # {} /\ ~DriverFailed(c))
    => /\ ret[c] = Err("Unsupported parameter type")
       /\ Attempted(c) = 1..(FirstUnsupported(c) - 1)
       /\ Performed(c, "commit") = {}
       /\ Writes(c) = {}
       /\ tx[c] = NoTx

(* C6's case: the unsupported tag is in the second step, the first step    *)
(* having executed.                                                        *)
C6_Witness ==
  \E c \in Calls :
    /\ pc[c] = "done" /\ ret[c] = Err("Unsupported parameter type")
    /\ FirstUnsupported(c) = 2 /\ Executed(c) = {1}

(* C7: a call whose connect failed is finished with "Failed to connect to  *)
(* database: " followed by the driver's message; the connect is the only   *)
(* driver operation it performed (no begin, execute or commit); it holds   *)
(* no pool and stored none; and the failing step leaves the map and the    *)
(* lock as they were.                                                      *)
C7_State ==
  \A c \in Calls : \A i \in Performed(c, "connect") :
    ~io[c][i].ok =>
      /\ pc[c] = "done"
      /\ ret[c] = Err("Failed to connect to database: " \o io[c][i].msg)
      /\ Len(io[c]) = 1
      /\ pool[c] = NoPool /\ tx[c] = NoTx
      /\ \A d \in DOMAIN connections : connections[d].by # c
C7_Step ==
  \A c \in Calls :
    (pc[c] = "connect" /\ pc'[c] = "done")
    => (connections' = connections /\ lock' = lock)
(* C7: every state satisfies C7_State and every failing connect C7_Step.    *)
C7_ConnectFailure == []C7_State /\ [][C7_Step]_vars

(* C7's case: a connect failed for an identifier that is not in the map.   *)
C7_Witness ==
  \E c \in Calls :
    /\ pc[c] = "done" /\ Performed(c, "connect") # {} /\ Succeeded(c, "connect") = {}
    /\ db_url[c] \notin DOMAIN connections

(* C8: a call whose begin failed is finished with "Failed to begin         *)
(* transaction: " followed by the driver's message; it performed no        *)
(* execute and no commit and completed no step; its identifier is a key of *)
(* the map, and the failing step leaves the map as it was.                 *)
C8_State ==
  \A c \in Calls : \A i \in Performed(c, "begin") :
    ~io[c][i].ok =>
      /\ pc[c] = "done"
      /\ ret[c] = Err("Failed to begin transaction: " \o io[c][i].msg)
      /\ Performed(c, "execute") = {} /\ Performed(c, "commit") = {}
      /\ idx[c] = 0 /\ tx[c] = NoTx /\ Writes(c) = {}
      /\ db_url[c] \in DOMAIN connections
      /\ connections[db_url[c]].url = pool[c].url
C8_Step ==
  \A c \in Calls :
    (pc[c] = "begin" /\ pc'[c] = "done") => connections' = connections
(* C8: every state satisfies C8_State and every failing begin C8_Step.      *)
C8_BeginFailure == []C8_State /\ [][C8_Step]_vars

(* C8's case: begin failed on a pool the call had connected and stored     *)
(* itself, for a batch that has steps.                                     *)
C8_Witness ==
  \E c \in Calls :
    /\ pc[c] = "done" /\ Performed(c, "begin") # {} /\ Succeeded(c, "begin") = {}
    /\ steps[c] # <<>>
    /\ connections[db_url[c]] = connect(db_url[c], c)

AllStepsExecuted(c) == Executed(c) = 1..Len(steps[c])
StepFailureOutcomes ==
  {"Invalid number type", "Unsupported parameter type"}
  \cup {"SQL Error: " \o m \o " | Query: " \o sql : m \in DriverMsgs, sql \in Sqls}

(* C9 as stated: in a finished call, commit was attempted if and only if   *)
(* every step of the batch was executed without error.                     *)
C9_Original ==
  \A c \in Calls :
    pc[c] = "done" => (Performed(c, "commit") # {} <=> AllStepsExecuted(c))

(* C9 amended: a commit is attempted only after every step was executed    *)
(* without error, and at most once; in a finished call whose transaction   *)
(* had begun, it was attempted if and only if every step was executed      *)
(* without error; a failed commit ends the call with "Failed to commit     *)
(* transaction: " followed by the driver's message, which is none of the   *)
(* step-failure outcomes.                                                  *)
C9_CommitGating ==
  \A c \in Calls :
    /\ Performed(c, "commit") # {} =>
         (AllStepsExecuted(c) /\ Cardinality(Performed(c, "commit")) = 1)
    /\ (pc[c] = "done" /\ Succeeded(c, "begin") # {}) =>
         (Performed(c, "commit") # {} <=> AllStepsExecuted(c))
    /\ \A i \in Performed(c, "commit") :
         ~io[c][i].ok =>
           /\ pc[c] = "done"
           /\ ret[c] = Err("Failed to commit transaction: " \o io[c][i].msg)
           /\ ret[c].err \notin StepFailureOutcomes

(* C9's case: a commit failed after both steps of a batch had executed.    *)
C9_Witness ==
  \E c \in Calls :
    /\ pc[c] = "done" /\ Len(steps[c]) = 2 /\ AllStepsExecuted(c)
    /\ Performed(c, "commit") # {} /\ Succeeded(c, "commit") = {}

(* C10: an Ok carries exactly {success: true, error: None} and is returned *)
(* by a finished call whose last driver operation is a successful commit;  *)
(* no result with success = false exists; a finished call without a        *)
(* successful commit returned an Err with a non-empty string and no        *)
(* result.                                                                 *)
C10_ResultShape ==
  \A c \in Calls :
    /\ ret[c].kind = "Ok" =>
         /\ ret[c].value = <<[success |-> TRUE, error |-> NoneStr]>>
         /\ pc[c] = "done"
         /\ io[c] # <<>> /\ io[c][Len(io[c])] = Event("commit", TRUE, "", 0)
    /\ \A i \in DOMAIN ret[c].value : ret[c].value[i].success
    /\ (pc[c] = "done" /\ Succeeded(c, "commit") = {}) =>
         (ret[c].kind = "Err" /\ ret[c].value = <<>> /\ ret[c].err # "")
    /\ pc[c] # "done" => ret[c] = Pending

(* C10's case: one call returned the success result and another call      *)
(* failed at its commit.                                                   *)
C10_Witness ==
  \E c, o \in Calls :
    /\ ret[c].kind = "Ok" /\ Writes(c) # {}
    /\ pc[o] = "done" /\ Performed(o, "commit") # {} /\ Succeeded(o, "commit") = {}

(***************************************************************************)
(* One call alone with a batch of one step, over every parameter list of   *)
(* up to MaxParams values drawn from every kind of serde_json::Value: the  *)
(* binder applied to each tag and each form of number.                     *)
(***************************************************************************)
BinderValues ==
  { JString("it's"), JBool(TRUE), JBool(FALSE), JNull, JArray, JObject,
    JNumber("PosInt", {0, 2}),           \* 5
    JNumber("PosInt", 0..62),            \* i64::MAX
    JNumber("PosInt", {63}),             \* 2^63
    JNumber("PosInt", {63, 10}),         \* 2^63 + 2^10, a tie between two floats
    JNumber("PosInt", {63, 10, 0}),      \* 2^63 + 2^10 + 1, above the tie
    JNumber("PosInt", 0..63),            \* u64::MAX
    JNumber("NegInt", 0..63),            \* -1
    JNumber("NegInt", {63}),             \* i64::MIN
    JNumber("Float", 51..61) }           \* 1.5
BinderBatches ==
  {<<TransactionStep("INSERT INTO t VALUES(?, ?)", ps)>> : ps \in SeqsUpTo(BinderValues, MaxParams)}

NextBinder ==
  \/ Invoke(1, BinderBatches)
  \/ LookupLock(1)
  \/ Lookup(1)
  \/ Connect(1)
  \/ InsertLock(1)
  \/ Insert(1)
  \/ Begin(1)
  \/ BindFail(1)
  \/ Execute(1)
  \/ Commit(1)

SpecBinder == InitBatch /\ [][NextBinder]_vars

(* A number that fits in a 64-bit signed integer.                          *)
FitsI64(n) == n.kind = "NegInt" \/ (n.kind = "PosInt" /\ n.bits[1] = 0)
(* The argument a parameter is to be bound as, by its tag.                 *)
BoundAs(p, a) ==
  CASE p.tag = "String" -> a = Arg("TEXT", p.s, Zero64, FALSE)
    [] p.tag = "Number" ->
         IF FitsI64(p.n) THEN a = Arg("INTEGER", "", p.n.bits, FALSE)
         ELSE a.ty = "REAL" /\ a.s = "" /\ ~a.b
    [] p.tag = "Bool"   -> a = Arg("BOOLEAN", "", Zero64, p.b)
    [] p.tag = "Null"   -> a = Arg("NULL:TEXT", "", Zero64, FALSE)
    [] OTHER            -> FALSE
(* The statements a call executed in its transaction, then committed.      *)
Statements(c) ==
  IF tx[c].open THEN tx[c].log
  ELSE IF pc[c] = "idle" THEN <<>>
  ELSE SelectSeq(store[db_url[c]], LAMBDA st : st.by = c)

(* C11, every iteration of the loop: the step is bound and its statement   *)
(* sent to the driver exactly when every parameter has one of the tags     *)
(* String, Number, Bool, Null; otherwise the call ends there, without a    *)
(* driver operation, with "Unsupported parameter type".                    *)
C11_Step ==
  \A c \in Calls :
    (pc[c] = "step" /\ <<pc[c], idx[c]>>' # <<pc[c], idx[c]>>) =>
      LET step == steps[c][idx[c] + 1] IN
      IF Unsupported(step)
        THEN /\ pc'[c] = "done" /\ io'[c] = io[c]
             /\ ret'[c] = Err("Unsupported parameter type")
        ELSE /\ Len(io'[c]) = Len(io[c]) + 1
             /\ io'[c][Len(io'[c])].op = "execute"
             /\ io'[c][Len(io'[c])].step = idx[c] + 1
(* C11, every state: a statement that was executed carries one argument    *)
(* for each parameter of its step, in the same order, each bound as its    *)
(* tag says (no parameter is dropped); and a call that failed without a    *)
(* driver error failed with one of the binder's two errors.                *)
C11_State ==
  \A c \in Calls :
    /\ (pc[c] = "done" /\ ret[c].kind = "Err" /\ ~DriverFailed(c)) =>
         ret[c].err \in {"Unsupported parameter type", "Invalid number type"}
    /\ \A k \in DOMAIN Statements(c) :
         LET args == Statements(c)[k].args
             params == steps[c][k].params
         IN /\ Len(args) = Len(params)
            /\ \A i \in DOMAIN params : BoundAs(params[i], args[i])
(* C11: every step satisfies C11_Step and every state C11_State.            *)
C11_BinderTotality == [][C11_Step]_vars /\ []C11_State

(* C11's case: a step with two parameters of different tags, a Null and a  *)
(* float Number, was bound and executed.                                   *)
C11_Witness ==
  \E c \in Calls :
    /\ pc[c] = "commit" /\ Len(tx[c].log) = 1
    /\ Len(steps[c][1].params) = 2
    /\ steps[c][1].params[1] = JNull
    /\ steps[c][1].params[2] = JNumber("Float", 51..61)
    /\ Len(tx[c].log[1].args) = 2

(* A number serde_json can hand out as f64: every Number can (a PosInt or  *)
(* NegInt is converted, a Float is finite).                                *)
HasF64(n) == n.kind \in {"PosInt", "NegInt", "Float"}
NeitherForm(p) == p.tag = "Number" /\ ~FitsI64(p.n) /\ ~HasF64(p.n)
(* The binary64 words of the integers above i64::MAX among the inputs,     *)
(* rounded to nearest, ties to even.                                       *)
NearestF64 ==
  { <<BitsOf({63}), BitsOf({62} \cup 53..57)>>,
    <<BitsOf({63, 10}), BitsOf({62} \cup 53..57)>>,
    <<BitsOf({63, 10, 0}), BitsOf({62} \cup 53..57 \cup {0})>>,
    <<BitsOf(0..63), BitsOf({62} \cup 52..57)>> }

(* C12: in a statement that was executed, a Number that fits in a 64-bit   *)
(* signed integer is bound as INTEGER with its own word; a Float is bound  *)
(* as REAL with its own word; a PosInt of 2^63..2^64-1 is not bound as     *)
(* INTEGER (it is bound as REAL, the nearest binary64); and a call ends    *)
(* with "Invalid number type" only, and then always, for a number that has *)
(* neither form.                                                           *)
C12_NumericCoercion ==
  \A c \in Calls :
    /\ \A k \in DOMAIN Statements(c) :
         \A i \in DOMAIN steps[c][k].params :
           LET p == steps[c][k].params[i]
               a == Statements(c)[k].args[i]
           IN p.tag = "Number" =>
                /\ FitsI64(p.n) => (a.ty = "INTEGER" /\ a.bits = p.n.bits)
                /\ p.n.kind = "Float" => (a.ty = "REAL" /\ a.bits = p.n.bits)
                /\ (p.n.kind = "PosInt" /\ p.n.bits[1] = 1) =>
                     /\ a.ty # "INTEGER"
                     /\ a.ty = "REAL" /\ <<p.n.bits, a.bits>> \in NearestF64
                /\ ~NeitherForm(p)
    /\ (pc[c] = "done" /\ ret[c].kind = "Err" /\ ~DriverFailed(c)) =>
         LET ps == steps[c][idx[c] + 1].params IN
         ret[c].err = "Invalid number type" <=>
           \E i \in DOMAIN ps :
             /\ NeitherForm(ps[i])
             /\ \A j \in 1..(i - 1) : ps[j].tag \in Supported /\ ~NeitherForm(ps[j])

(* C12's case: a statement was executed whose parameters are u64::MAX,     *)
(* bound as REAL, and i64::MIN, bound as INTEGER.                          *)
C12_Witness ==
  \E c \in Calls :
    /\ pc[c] = "commit" /\ Len(tx[c].log) = 1
    /\ steps[c][1].params = <<JNumber("PosInt", 0..63), JNumber("NegInt", {63})>>
    /\ tx[c].log[1].args[1].ty = "REAL"
    /\ tx[c].log[1].args[2].ty = "INTEGER"

(***************************************************************************)
(* Two runs, calls 1 and 2, beside other invocations of the command: a     *)
(* call outside the two may at any moment have connected a pool for an     *)
(* identifier and stored it, so that either run can find its identifier    *)
(* cached or not.                                                          *)
(***************************************************************************)
Twins == {1, 2}
(* The insert block of a call other than the two runs, after its connect.  *)
OtherInsert(d) ==
  /\ CanLock(lock)
  /\ connections' = insert(connections, d, connect(d, NoCall))
  /\ UNCHANGED <<lock, pc, db_url, steps, pool, idx, tx, ret, store, io, uvars>>

NextTwin ==
  \/ \E d \in Ids : OtherInsert(d)
  \/ \E c \in Twins :
       \/ Invoke(c, ConcBatches)
       \/ LookupLock(c)
       \/ Lookup(c)
       \/ Connect(c)
       \/ InsertLock(c)
       \/ Insert(c)
       \/ Begin(c)
       \/ BindFail(c)
       \/ Execute(c)
       \/ Commit(c)

SpecTwin == Init /\ [][NextTwin]_vars

(* Two finished runs with the same identifier and the same steps.          *)
SameInputs(c, o) ==
  /\ pc[c] = "done" /\ pc[o] = "done"
  /\ db_url[c] = db_url[o] /\ steps[c] = steps[o]
(* The driver answered alike every operation that both runs performed.     *)
SameResponses(c, o) ==
  \A i \in DOMAIN io[c], j \in DOMAIN io[o] :
    (io[c][i].op = io[o][j].op /\ io[c][i].step = io[o][j].step)
    => io[c][i] = io[o][j]

(* C13 as stated: two finished runs with the same identifier and steps and *)
(* the same driver responses returned the same result, whatever the map    *)
(* held when each looked its identifier up.                                *)
C13_Original ==
  \A c, o \in Twins :
    (SameInputs(c, o) /\ SameResponses(c, o)) => ret[c] = ret[o]

(* C13 amended: they returned the same result if both found the identifier *)
(* in the map, or both did not, or no connect failed.                      *)
C13_Determinism ==
  \A c, o \in Twins :
    ( /\ SameInputs(c, o) /\ SameResponses(c, o)
      /\ \/ Performed(c, "connect") = {} <=> Performed(o, "connect") = {}
         \/ \A x \in {c, o} : Performed(x, "connect") = Succeeded(x, "connect") )
    => ret[c] = ret[o]

(* C13's case: a run that connected its pool and a run that found the      *)
(* identifier cached both failed at the execute of their step.             *)
C13_Witness ==
  \E c, o \in Twins :
    /\ SameInputs(c, o) /\ SameResponses(c, o)
    /\ Succeeded(c, "connect") # {} /\ Performed(o, "connect") = {}
    /\ Performed(c, "execute") # {} /\ Succeeded(c, "execute") = {}
    /\ ret[c] = ret[o]

(* The pools stored in the map.                                            *)
Stored == {connections[d] : d \in DOMAIN connections}

(* C14, every insert: the call stores the pool it connected itself under   *)
(* its identifier, whether or not the identifier has an entry already, and *)
(* goes on with that pool; nothing else in the map changes.                *)
C14_Step ==
  \A c \in Calls :
    (pc[c] = "insert_locked" /\ pc'[c] # "insert_locked") =>
      /\ pool[c] = connect(db_url[c], c)
      /\ connections' = [d \in DOMAIN connections \cup {db_url[c]} |->
                           IF d = db_url[c] THEN pool[c] ELSE connections[d]]
      /\ pool'[c] = pool[c] /\ pc'[c] = "begin"
(* The calls that connected a pool for d and stored it.                    *)
Creators(d) ==
  {c \in Calls : db_url[c] = d /\ pc[c] \in Resolved /\ Succeeded(c, "connect") # {}}
(* C14, every state: a call that connected a pool runs on that pool, and   *)
(* writes through it, whether or not the map still holds it; of the calls  *)
(* that stored a pool for one identifier, the map holds the pool of one    *)
(* and the pools of all the others are in the map no more.                 *)
C14_State ==
  /\ \A c \in Calls :
       Succeeded(c, "connect") # {} =>
         /\ pool[c] = connect(db_url[c], c)
         /\ \A w \in Writes(c) : w[1] = pool[c].url
  /\ \A d \in Ids :
       Creators(d) # {} =>
         /\ connections[d] \in {pool[c] : c \in Creators(d)}
         /\ Cardinality({c \in Creators(d) : pool[c] \notin Stored})
              = Cardinality(Creators(d)) - 1
(* C14: every insert satisfies C14_Step and every state C14_State.          *)
C14_DuplicateCreation == [][C14_Step]_vars /\ []C14_State

(* C14's case: two calls with the same identifier both missed the lookup   *)
(* and both connected; the map holds the pool of one of them, and the      *)
(* other has committed its statement through its own pool, which is in the *)
(* map no more.                                                            *)
C14_Witness ==
  \E c, o \in Calls :
    /\ c # o /\ db_url[c] = db_url[o]
    /\ Succeeded(c, "connect") # {} /\ Succeeded(o, "connect") # {}
    /\ connect(db_url[o], o) \in Stored
    /\ pool[c] = connect(db_url[c], c) /\ pool[c] \notin Stored
    /\ ret[c].kind = "Ok" /\ Writes(c) # {}

(* The execute operations of a call, in the order it performed them.       *)
Executes(c) == SelectSeq(io[c], LAMBDA e : e.op = "execute")

(* C15: the execute operations of a call are those of steps 1, 2, ..., k,  *)
(* in this order, each but the last successful; the statements in the      *)
(* transaction are those of the first steps of the batch, in order, with   *)
(* the sql text of their step; and a call whose execute of step k failed   *)
(* performed nothing after it and returned "SQL Error: " with the driver's *)
(* message and " | Query: " with the sql text of step k.                   *)
C15_StepOrder ==
  \A c \in Calls :
    LET E == Executes(c) IN
    /\ Len(E) <= Len(steps[c])
    /\ \A i \in DOMAIN E :
         /\ E[i].step = i
         /\ i < Len(E) => E[i].ok
    /\ Len(Statements(c)) <= Len(E)
    /\ tx[c].open => Len(tx[c].log) = Cardinality(Succeeded(c, "execute"))
    /\ \A k \in DOMAIN Statements(c) : Statements(c)[k].sql = steps[c][k].sql
    /\ \A i \in DOMAIN E :
         ~E[i].ok =>
           /\ pc[c] = "done"
           /\ io[c][Len(io[c])] = E[i]
           /\ Attempted(c) = 1..i /\ Executed(c) = 1..(i - 1)
           /\ ret[c] = Err("SQL Error: " \o E[i].msg \o " | Query: " \o steps[c][i].sql)

(* C15's case: the first step executed and the execute of the second, a    *)
(* statement with another text, failed.                                    *)
C15_Witness ==
  \E c \in Calls :
    /\ pc[c] = "done" /\ Len(steps[c]) = 2
    /\ steps[c][1].sql # steps[c][2].sql
    /\ Executed(c) = {1} /\ Attempted(c) = {1, 2}
    /\ ret[c].kind = "Err"

(* The state of a call in the per-call state machine.  A finished call is  *)
(* in the terminal state of the operation that ended it.                   *)
Phase(c) ==
  CASE pc[c] = "begin"  -> "PoolResolved"
    [] pc[c] = "step"   -> "InTransaction"
    [] pc[c] = "commit" -> "AllStepsOk"
    [] pc[c] = "done"   ->
         IF ret[c].kind = "Ok" THEN "Committed"
         ELSE IF Performed(c, "commit") # {} THEN "CommitFailed"
         ELSE IF Succeeded(c, "begin") # {} THEN "StepFailed"
         ELSE IF Performed(c, "begin") # {} THEN "BeginFailed"
         ELSE "ConnectFailed"
    [] OTHER            -> "Idle"
Chain ==
  { <<"Idle", "PoolResolved">>, <<"PoolResolved", "InTransaction">>,
    <<"InTransaction", "StepFailed">>, <<"InTransaction", "AllStepsOk">>,
    <<"AllStepsOk", "Committed">>, <<"AllStepsOk", "CommitFailed">> }
(* With an empty batch the loop has no iteration: the call is at its       *)
(* commit as soon as the transaction has begun.                            *)
EmptyBatch(c) == IF steps[c] = <<>> THEN {<<"PoolResolved", "AllStepsOk">>} ELSE {}
(* A failed connect ends the call from Idle, a failed begin from           *)
(* PoolResolved.                                                           *)
EarlyExits == {<<"Idle", "ConnectFailed">>, <<"PoolResolved", "BeginFailed">>}

(* Every operation is performed at most once, and a call has returned      *)
(* exactly when it is finished: a success, or one error string.            *)
C16_Once ==
  \A c \in Calls :
    /\ \A op \in {"connect", "begin", "commit"} : Cardinality(Performed(c, op)) <= 1
    /\ \A k \in DOMAIN steps[c] :
         Cardinality({i \in Performed(c, "execute") : io[c][i].step = k}) <= 1
    /\ pc[c] = "done" <=> ret[c] # Pending
    /\ pc[c] = "done" =>
         \/ ret[c].kind = "Ok" /\ ret[c].err = ""
         \/ ret[c].kind = "Err" /\ ret[c].err # "" /\ ret[c].value = <<>>
(* A finished call stays as it is.                                         *)
C16_Final ==
  \A c \in Calls :
    pc[c] = "done" => (pc'[c] = "done" /\ ret'[c] = ret[c] /\ io'[c] = io[c])

(* C16 as stated: a call changes state only along the chain Idle ->        *)
(* PoolResolved -> InTransaction -> (StepFailed | AllStepsOk) ->           *)
(* (Committed | CommitFailed); every operation is performed at most once   *)
(* and the call ends in one outcome.                                       *)
C16_Original ==
  /\ [][/\ \A c \in Calls :
             Phase(c)' # Phase(c) => <<Phase(c), Phase(c)'>> \in Chain \cup EmptyBatch(c)
        /\ C16_Final]_vars
  /\ []C16_Once

(* C16 amended: a call changes state only along the chain, or leaves it to *)
(* a terminal error from Idle (connect failed) or from PoolResolved (begin *)
(* failed); never backwards; every operation is performed at most once and *)
(* the call ends in one outcome.                                           *)
C16_StateMachine ==
  /\ [][/\ \A c \in Calls :
             Phase(c)' # Phase(c) =>
               <<Phase(c), Phase(c)'>> \in Chain \cup EmptyBatch(c) \cup EarlyExits
        /\ C16_Final]_vars
  /\ []C16_Once

(* C16's case: a call with two steps went through the whole chain, with    *)
(* its five driver operations, to Committed.                               *)
C16_Witness ==
  \E c \in Calls :
    /\ Phase(c) = "Committed" /\ Len(steps[c]) = 2
    /\ Len(io[c]) = 5

(* C17, every step: no key leaves the map; the map changes only in the     *)
(* insert of a call whose connect succeeded, and then only at the call's   *)
(* identifier, which gets the pool that call connected; a step that ends a *)
(* call with an error, or that begins, executes or commits, leaves the map *)
(* as it was.                                                              *)
C17_Step ==
  /\ DOMAIN connections \subseteq DOMAIN connections'
  /\ connections' # connections =>
       \E c \in Calls :
         /\ pc[c] = "insert_locked" /\ pc'[c] = "begin"
         /\ Succeeded(c, "connect") # {}
         /\ DOMAIN connections' = DOMAIN connections \cup {db_url[c]}
         /\ connections'[db_url[c]] = connect(db_url[c], c)
         /\ \A d \in DOMAIN connections : d # db_url[c] => connections'[d] = connections[d]
  /\ \A c \in Calls :
       (pc[c] \in {"connect", "begin", "step", "commit"} /\ pc'[c] # pc[c])
       => connections' = connections
  /\ \A c \in Calls :
       (ret[c] = Pending /\ ret'[c].kind = "Err") => connections' = connections
(* C17: every step satisfies C17_Step, and every key of the map was stored *)
(* after a successful connect for it.                                      *)
C17_Monotonic ==
  /\ [][C17_Step]_vars
  /\ [](\A d \in DOMAIN connections :
          /\ connections[d].url = d
          /\ \E c \in Calls : db_url[c] = d /\ Succeeded(c, "connect") # {})

(* C17's case: a call failed at its commit and the pool it had stored is   *)
(* in the map still, beside the entry of another identifier.               *)
C17_Witness ==
  \E c \in Calls :
    /\ pc[c] = "done" /\ ret[c].kind = "Err"
    /\ Performed(c, "commit") # {}
    /\ DOMAIN connections = Ids
    /\ connections[db_url[c]] = connect(db_url[c], c)

(***************************************************************************)
(* The calls under a fair scheduler: a call that can take its next step    *)
(* (the mutex is free for it, or the driver operation it awaits returns)   *)
(* eventually takes it.                                                    *)
(***************************************************************************)
Step(c) ==
  \/ LookupLock(c)
  \/ Lookup(c)
  \/ Connect(c)
  \/ InsertLock(c)
  \/ Insert(c)
  \/ Begin(c)
  \/ BindFail(c)
  \/ Execute(c)
  \/ Commit(c)

SpecFair == Init /\ [][Next]_vars /\ \A c \in Calls : WF_vars(Step(c))

(* A call that has been invoked and has not returned.                      *)
Running(c) == pc[c] \notin {"idle", "done"}
(* C18, every state: a running call can take its next step, or it waits    *)
(* for the mutex, which another call holds that can take its next step;    *)
(* no call waits for a lock it holds itself.                               *)
C18_NoDeadlock ==
  \A c \in Calls :
    Running(c) =>
      \/ ENABLED Step(c)
      \/ /\ pc[c] \in {"lookup", "insert"}
         /\ lock \in Calls \ {c}
         /\ pc[lock] \in Locked
         /\ ENABLED Step(lock)
(* C18: no state is a deadlock, and every invoked call returns.            *)
C18_Termination ==
  /\ []C18_NoDeadlock
  /\ \A c \in Calls : Running(c) ~> (pc[c] = "done" /\ ret[c] # Pending)

(* C18's case: a call that has connected waits for the mutex at its insert *)
(* while the other call, with another identifier, holds it in its lookup.  *)
C18_Witness ==
  \E c, o \in Calls :
    /\ pc[c] = "insert" /\ lock = o /\ pc[o] = "lookup_locked"
    /\ db_url[c] # db_url[o]

(***************************************************************************)
(* The updater commands.  Each invocation is a call u \in UCalls, of       *)
(* check_for_update or of download_and_install_update; it advances from    *)
(* one lock operation or await to the next, while the application runs.    *)
(***************************************************************************)
InvokeCheck(u) ==
  /\ app = "running" /\ upc[u] = "idle"
  /\ ucmd' = [ucmd EXCEPT ![u] = "check_for_update"]
  /\ upc' = [upc EXCEPT ![u] = "check"]
  /\ UNCHANGED <<pending_update, ulock, update, uret, downloads, app, dbvars>>

(* builder.build()?.check().await?: an error, no update, or an update.     *)
Check(u) ==
  /\ app = "running" /\ upc[u] = "check"
  /\ \/ \E m \in UpdaterMsgs :
          /\ uret' = [uret EXCEPT ![u] = UErr(UpdaterError(m))]
          /\ upc' = [upc EXCEPT ![u] = "done"]
          /\ update' = update
     \/ \E found \in {NoUpdate, Update(u)} :
          /\ update' = [update EXCEPT ![u] = found]
          /\ upc' = [upc EXCEPT ![u] = "store"]
          /\ uret' = uret
  /\ UNCHANGED <<pending_update, ulock, ucmd, downloads, app, dbvars>>

(* pending_update.0.lock() of check_for_update.                            *)
StoreLock(u) ==
  /\ app = "running" /\ upc[u] = "store"
  /\ CanLock(ulock)
  /\ ulock' = u
  /\ upc' = [upc EXCEPT ![u] = "store_locked"]
  /\ UNCHANGED <<pending_update, ucmd, update, uret, downloads, app, dbvars>>

(* *guard = update, the guard dropped; then Ok(update_metadata).           *)
Store(u) ==
  /\ app = "running" /\ upc[u] = "store_locked"
  /\ pending_update' = update[u]
  /\ update' = [update EXCEPT ![u] = NoUpdate]
  /\ ulock' = NoCall
  /\ uret' = [uret EXCEPT ![u] = UOk(update[u].some)]
  /\ upc' = [upc EXCEPT ![u] = "done"]
  /\ UNCHANGED <<ucmd, downloads, app, dbvars>>

InvokeInstall(u) ==
  /\ app = "running" /\ upc[u] = "idle"
  /\ ucmd' = [ucmd EXCEPT ![u] = "download_and_install_update"]
  /\ upc' = [upc EXCEPT ![u] = "take"]
  /\ UNCHANGED <<pending_update, ulock, update, uret, downloads, app, dbvars>>

(* pending_update.0.lock() of download_and_install_update.                 *)
TakeLock(u) ==
  /\ app = "running" /\ upc[u] = "take"
  /\ CanLock(ulock)
  /\ ulock' = u
  /\ upc' = [upc EXCEPT ![u] = "take_locked"]
  /\ UNCHANGED <<pending_update, ucmd, update, uret, downloads, app, dbvars>>

(* let Some(update) = guard.take() else { return Err(NoPendingUpdate) },   *)
(* the guard dropped; with an update, download_and_install is called.      *)
Take(u) ==
  /\ app = "running" /\ upc[u] = "take_locked"
  /\ LET t == take(pending_update) IN
       /\ pending_update' = t.left
       /\ update' = [update EXCEPT ![u] = t.value]
       /\ IF t.value.some
            THEN /\ downloads' = Append(downloads, [by |-> u, update |-> t.value])
                 /\ upc' = [upc EXCEPT ![u] = "download"]
                 /\ uret' = uret
            ELSE /\ uret' = [uret EXCEPT ![u] = UErr(NoPendingUpdate)]
                 /\ upc' = [upc EXCEPT ![u] = "done"]
                 /\ downloads' = downloads
  /\ ulock' = NoCall
  /\ UNCHANGED <<ucmd, app, dbvars>>

(* update.download_and_install(..).await?: on an error the call returns    *)
(* it; on success it returns Ok(()) (Windows) or the application restarts  *)
(* and the call never returns (other targets).                             *)
DownloadAndInstall(u) ==
  /\ app = "running" /\ upc[u] = "download"
  /\ \/ \E m \in UpdaterMsgs :
          /\ uret' = [uret EXCEPT ![u] = UErr(UpdaterError(m))]
          /\ upc' = [upc EXCEPT ![u] = "done"]
          /\ app' = app
     \/ /\ uret' = [uret EXCEPT ![u] = UOk(FALSE)]
        /\ upc' = [upc EXCEPT ![u] = "done"]
        /\ app' = app
     \/ /\ app' = "restarted"
        /\ upc' = [upc EXCEPT ![u] = "restarted"]
        /\ uret' = uret
  /\ UNCHANGED <<pending_update, ulock, ucmd, update, downloads, dbvars>>

NextUpdater ==
  \E u \in UCalls :
    \/ InvokeCheck(u)
    \/ Check(u)
    \/ StoreLock(u)
    \/ Store(u)
    \/ InvokeInstall(u)
    \/ TakeLock(u)
    \/ Take(u)
    \/ DownloadAndInstall(u)

SpecUpdater == Init /\ [][NextUpdater]_vars

(* The install calls, those that went on to download, and the checks that  *)
(* stored an update.                                                       *)
Installs == {u \in UCalls : ucmd[u] = "download_and_install_update"}
Proceeded == {downloads[i].by : i \in DOMAIN downloads}
StoredUpdate == {u \in UCalls : ucmd[u] = "check_for_update" /\ uret[u] = UOk(TRUE)}

(* C19, every take: it happens under the lock and leaves None in the       *)
(* state; with an update the call goes on to download it, and without one  *)
(* it returns "there is no pending update" and downloads nothing.          *)
C19_Step ==
  \A u \in UCalls :
    (upc[u] = "take_locked" /\ upc'[u] # "take_locked") =>
      /\ ulock = u
      /\ pending_update' = NoUpdate
      /\ IF pending_update.some
           THEN /\ upc'[u] = "download" /\ update'[u] = pending_update
                /\ Len(downloads') = Len(downloads) + 1
           ELSE /\ upc'[u] = "done" /\ uret'[u] = UErr(NoPendingUpdate)
                /\ downloads' = downloads
(* C19, every state: there are no more downloads than updates stored, none *)
(* of the same update twice and none twice by one call; after a single     *)
(* check that stored an update at most one install call went on to         *)
(* download, and once it did the state is empty, whatever came of the      *)
(* install; every other finished install call returned "there is no        *)
(* pending update" and downloaded nothing.                                 *)
C19_State ==
  /\ Cardinality(Proceeded) = Len(downloads)
  /\ Len(downloads) <= Cardinality(StoredUpdate)
  /\ \A i, j \in DOMAIN downloads :
       i # j => downloads[i].update # downloads[j].update
  /\ Cardinality(StoredUpdate) <= 1 =>
       /\ Cardinality(Proceeded) <= 1
       /\ Proceeded # {} => pending_update = NoUpdate
  /\ \A u \in Proceeded : pending_update # update[u]
  /\ \A u \in Installs :
       /\ (upc[u] = "done" /\ u \notin Proceeded) => uret[u] = UErr(NoPendingUpdate)
       /\ uret[u] = UErr(NoPendingUpdate) => (u \notin Proceeded /\ ~update[u].some)
(* C19: every take satisfies C19_Step and every state C19_State.            *)
C19_ConsumedOnce == [][C19_Step]_vars /\ []C19_State

(* C19's case: one check stored an update; of two install calls one went   *)
(* on to download and its install failed, the other returned "there is no  *)
(* pending update"; the state is empty.                                    *)
C19_Witness ==
  \E k, u, w \in UCalls :
    /\ StoredUpdate = {k}
    /\ Proceeded = {u} /\ upc[u] = "done" /\ uret[u].kind = "Err"
    /\ w # u /\ w \in Installs /\ uret[w] = UErr(NoPendingUpdate)
    /\ pending_update = NoUpdate

============================================================================
